---------------------------- MODULE Spec2Model ----------------------------
(***************************************************************************)
(* Model of the SBOM test application: NetworkClient (network_client.cpp), *)
(* DataProcessor (data_processor.cpp) and the entry point (main.cpp).      *)
(*                                                                         *)
(* Three specifications share the variables:                               *)
(*   Spec          - one run of main()                                     *)
(*   SpecClient    - a NetworkClient driven by any sequence of its public  *)
(*                   methods, then destroyed                               *)
(*   SpecProcessor - a DataProcessor driven by any sequence of its public  *)
(*                   methods, then destroyed                               *)
(*                                                                         *)
(* The external libraries (libcurl, sqlite3, zlib, fmt) are the            *)
(* environment: every call the program makes to them is appended to        *)
(* `trace`, and what they return is chosen nondeterministically among the  *)
(* outcomes their interface allows.                                        *)
(***************************************************************************)
EXTENDS Integers, Sequences, FiniteSets

VARIABLES
    pc,            \* position in main(), or "client" / "processor" in the drivers
    client,        \* NetworkClient object: "none", "alive", "destroyed"
    curl_handle_,  \* NetworkClient::curl_handle_ (0 is nullptr)
    processor,     \* DataProcessor object: "none", "alive", "destroyed"
    db_,           \* DataProcessor::db_ (0 is nullptr)
    get_url,       \* argument of the latest NetworkClient::get call
    response,      \* value returned by the latest NetworkClient::get call
    data,          \* argument of the latest compress_data call
    result,        \* compress_data's local `result` after the compress call
    compressed_size, \* compress_data's local `compressed_size` after the compress call
    compressed,    \* size() of the vector returned by the latest compress_data call
    out,           \* lines written to std::cout
    trace,         \* method entries and library calls, in program order
    exit_code      \* value returned by main (-1 while main has not returned)

vars == <<pc, client, curl_handle_, processor, db_, get_url, response, data,
          result, compressed_size, compressed, out, trace, exit_code>>

clientVars == <<client, curl_handle_, get_url, response>>
processorVars == <<processor, db_, data, result, compressed_size, compressed>>

-----------------------------------------------------------------------------
(* Bounds of the drivers *)

\* number of method calls the client driver makes before destroying the client
MaxCalls == 3
\* number of method calls the processor driver makes before destroying the processor
MaxProcessorCalls == 2
\* longest URL text passed to get
MaxUrlLen == 2
\* longest input text passed to process_data / compress_data by the driver
MaxDataLen == 2

-----------------------------------------------------------------------------
(* Text: a string is a sequence of one-character strings *)

Chars == {"h", "{", "}"}

RECURSIVE TextsUpTo(_)
TextsUpTo(n) ==
    IF n = 0 THEN {<<>>}
    ELSE LET shorter == TextsUpTo(n - 1)
         IN  shorter \cup {Append(t, c) : t \in shorter, c \in Chars}

Urls == TextsUpTo(MaxUrlLen)

Datas == {t \in TextsUpTo(MaxDataLen) : \A i \in DOMAIN t : t[i] = "h"}

\* the literal "sample data" of main.cpp
SampleData == <<"s", "a", "m", "p", "l", "e", " ", "d", "a", "t", "a">>

\* the literal "Response from: {}" of network_client.cpp
ResponseTemplate ==
    <<"R", "e", "s", "p", "o", "n", "s", "e", " ", "f", "r", "o", "m", ":", " ",
      "{", "}">>

\* the same literal without its replacement field
ResponsePrefix == SubSeq(ResponseTemplate, 1, Len(ResponseTemplate) - 2)

\* sub occurs in s as a contiguous substring
Contains(s, sub) ==
    \E i \in 0..(Len(s) - Len(sub)) : SubSeq(s, i + 1, i + Len(sub)) = sub

\* fmt::format(tmpl, arg...): "{}" is replaced by the next argument, "{{" and
\* "}}" are escapes for one brace, every other character is copied.  The
\* arguments are inserted as they are, never scanned for fields.
RECURSIVE format(_, _)
format(tmpl, args) ==
    IF tmpl = <<>> THEN <<>>
    ELSE IF Len(tmpl) >= 2 /\ tmpl[1] = "{" /\ tmpl[2] = "}" /\ args # <<>>
         THEN Head(args) \o format(SubSeq(tmpl, 3, Len(tmpl)), Tail(args))
    ELSE IF Len(tmpl) >= 2 /\ tmpl[1] = tmpl[2] /\ tmpl[1] \in {"{", "}"}
         THEN <<tmpl[1]>> \o format(SubSeq(tmpl, 3, Len(tmpl)), args)
    ELSE <<Head(tmpl)>> \o format(Tail(tmpl), args)

-----------------------------------------------------------------------------
(* The trace of method entries and library calls *)

\* arg and res hold the handle passed and the handle or result code returned
\* (0 where the call has none, or where a variable holds it: compress)
Call(fn, arg, res) == [fn |-> fn, arg |-> arg, res |-> res]

\* a line on std::cout: the message, a text argument, two numeric arguments
Line(msg, text, a, b) == [msg |-> msg, text |-> text, a |-> a, b |-> b]

Count(tr, fn) == Cardinality({i \in DOMAIN tr : tr[i].fn = fn})

Has(tr, fn) == \E i \in DOMAIN tr : tr[i].fn = fn

\* index of the latest call of fn in tr (0 when there is none)
LastIndex(tr, fn) ==
    LET S == {i \in DOMAIN tr : tr[i].fn = fn}
    IN  IF S = {} THEN 0 ELSE CHOOSE i \in S : \A j \in S : j <= i

\* handles curl_easy_init has returned so far
CurlCreated(tr) ==
    {tr[i].res : i \in {j \in DOMAIN tr : tr[j].fn = "curl_easy_init" /\ tr[j].res # 0}}

\* number of curl_easy_cleanup calls made on handle h
CurlReleases(tr, h) ==
    Cardinality({i \in DOMAIN tr : tr[i].fn = "curl_easy_cleanup" /\ tr[i].arg = h})

\* handles sqlite3_open has stored in *ppDb so far (open or not)
DbCreated(tr) ==
    {tr[i].arg : i \in {j \in DOMAIN tr : tr[j].fn = "sqlite3_open" /\ tr[j].arg # 0}}

\* number of sqlite3_close calls made on handle h
DbReleases(tr, h) ==
    Cardinality({i \in DOMAIN tr : tr[i].fn = "sqlite3_close" /\ tr[i].arg = h})

\* h is a connection that sqlite3_open opened (rc = 0) and nobody has closed
DbIsOpen(tr, h) ==
    /\ \E i \in DOMAIN tr : tr[i].fn = "sqlite3_open" /\ tr[i].arg = h /\ tr[i].res = 0
    /\ DbReleases(tr, h) = 0

-----------------------------------------------------------------------------
(* libcurl: curl_easy_init returns a fresh handle or NULL *)

curl_easy_init_results(tr) == {0, Cardinality(CurlCreated(tr)) + 1}

-----------------------------------------------------------------------------
(* NetworkClient *)

\* NetworkClient::NetworkClient()
NetworkClient_ctor ==
    /\ client' = "alive"
    /\ curl_handle_' = 0
    /\ trace' = Append(trace, Call("NetworkClient::NetworkClient", 0, 0))
    /\ UNCHANGED <<get_url, response, out>>

\* library calls made by ~NetworkClient() on a client holding handle h
NetworkClient_dtor_calls(h) ==
    IF h # 0 THEN <<Call("curl_easy_cleanup", h, 0)>> ELSE <<>>

\* NetworkClient::~NetworkClient()
NetworkClient_dtor ==
    /\ client' = "destroyed"
    /\ trace' = Append(trace, Call("NetworkClient::~NetworkClient", 0, 0))
                    \o NetworkClient_dtor_calls(curl_handle_)
    /\ UNCHANGED <<curl_handle_, get_url, response, out>>

\* NetworkClient::initialize(), where curl_easy_init returns h
NetworkClient_initialize(h) ==
    /\ curl_handle_' = h
    /\ out' = IF h # 0
              THEN Append(out, Line("CURL initialized successfully", <<>>, 0, 0))
              ELSE out
    /\ trace' = trace \o <<Call("NetworkClient::initialize", 0, 0),
                           Call("curl_easy_init", 0, h)>>
    /\ UNCHANGED <<client, get_url, response>>

\* the same method with the replacement field missing from the literal
get_result_noField(url) == format(ResponsePrefix, <<url>>)

\* value returned by NetworkClient::get(url)
get_result(url) == format(ResponseTemplate, <<url>>)

\* NetworkClient::get(url)
NetworkClient_get(url) ==
    /\ get_url' = url
    /\ response' = get_result(url)
    /\ trace' = Append(trace, Call("NetworkClient::get", 0, 0))
    /\ UNCHANGED <<client, curl_handle_, out>>

-----------------------------------------------------------------------------
(* sqlite3 and zlib *)

\* sqlite3_open(":memory:", &db_): the result code and the handle stored in db_.
\* On success the handle is an open connection; on failure sqlite3 still
\* stores a handle (that must be closed) unless it could not allocate one.
sqlite3_open_results(tr) ==
    LET fresh == Cardinality(DbCreated(tr)) + 1
    IN  {[rc |-> 0, db |-> fresh], [rc |-> 14, db |-> fresh], [rc |-> 7, db |-> 0]}

Z_OK == 0

\* result codes of compress: Z_OK, Z_MEM_ERROR, Z_BUF_ERROR
compress_results == {Z_OK, -4, -5}

\* compressBound(sourceLen) of zlib
compressBound(sourceLen) ==
    sourceLen + (sourceLen \div 4096) + (sourceLen \div 16384)
              + (sourceLen \div 33554432) + 13

\* values compress may leave in *destLen when called with *destLen = bound:
\* the compressed size on Z_OK; on failure the bytes written so far or the
\* value passed in, depending on the zlib version
compress_destLen(bound) == {0, 1, bound - 1, bound}

-----------------------------------------------------------------------------
(* DataProcessor *)

\* DataProcessor::DataProcessor(), where sqlite3_open gives o
DataProcessor_ctor(o) ==
    /\ processor' = "alive"
    /\ db_' = o.db
    /\ trace' = trace \o <<Call("DataProcessor::DataProcessor", 0, 0),
                           Call("sqlite3_open", o.db, o.rc)>>
    /\ out' = IF o.rc # 0
              THEN Append(out, Line("Can't open database", <<>>, o.rc, 0))
              ELSE Append(out, Line("SQLite database opened successfully", <<>>, 0, 0))
    /\ UNCHANGED <<data, result, compressed_size, compressed>>

\* a destructor that forgets the connection
dtor_calls_noClose(db) == <<>>

\* a destructor without the null check
dtor_calls_noCheck(db) == <<Call("sqlite3_close", db, 0)>>

\* library calls made by ~DataProcessor() on a processor holding handle db
DataProcessor_dtor_calls(db) ==
    IF db # 0 THEN <<Call("sqlite3_close", db, 0)>> ELSE <<>>

\* DataProcessor::~DataProcessor()
DataProcessor_dtor ==
    /\ processor' = "destroyed"
    /\ trace' = Append(trace, Call("DataProcessor::~DataProcessor", 0, 0))
                    \o DataProcessor_dtor_calls(db_)
    /\ UNCHANGED <<db_, data, result, compressed_size, compressed, out>>

\* compress_data that never shrinks the vector
vector_size_noResize(bound, res, destLen) == bound

\* compress_data that shrinks the vector whatever compress returned
vector_size_alwaysResize(bound, res, destLen) == destLen

\* size() of the vector compress_data returns: resized to bound before the
\* call, resized to the reported length only when compress returned Z_OK
vector_size(bound, res, destLen) ==
    IF res = Z_OK THEN destLen ELSE bound

\* the assignments of compress_data(d), where compress returns res and
\* leaves destLen in compressed_size
compress_data_effect(d, res, destLen) ==
    /\ data' = d
    /\ result' = res
    /\ compressed_size' = destLen
    /\ compressed' = vector_size(compressBound(Len(d)), res, destLen)

\* DataProcessor::compress_data(d)
DataProcessor_compress_data(d, res, destLen) ==
    /\ compress_data_effect(d, res, destLen)
    /\ trace' = trace \o <<Call("DataProcessor::compress_data", 0, 0),
                           Call("compress", 0, 0)>>
    /\ UNCHANGED <<processor, db_, out>>

\* DataProcessor::process_data(d)
DataProcessor_process_data(d, res, destLen) ==
    /\ compress_data_effect(d, res, destLen)
    /\ trace' = trace \o <<Call("DataProcessor::process_data", 0, 0),
                           Call("DataProcessor::compress_data", 0, 0),
                           Call("compress", 0, 0)>>
    /\ out' = out \o <<Line("Processing data", d, 0, 0),
                       Line("Compressed", <<>>, Len(d), compressed')>>
    /\ UNCHANGED <<processor, db_>>

-----------------------------------------------------------------------------
(* Initial state: no object exists, nothing has run *)

InitAt(p) ==
    /\ pc = p
    /\ client = "none"
    /\ curl_handle_ = 0
    /\ processor = "none"
    /\ db_ = 0
    /\ get_url = <<>>
    /\ response = <<>>
    /\ data = <<>>
    /\ result = 0
    /\ compressed_size = 0
    /\ compressed = 0
    /\ out = <<>>
    /\ trace = <<>>
    /\ exit_code = -1

-----------------------------------------------------------------------------
(* Driver of a NetworkClient: construct, any calls, destroy *)

\* method calls made on the client so far
ClientCalls(tr) == Count(tr, "NetworkClient::initialize") + Count(tr, "NetworkClient::get")

NewClient ==
    /\ pc = "client" /\ client = "none"
    /\ NetworkClient_ctor
    /\ UNCHANGED <<pc, processorVars, exit_code>>

Initialize ==
    /\ pc = "client" /\ client = "alive"
    /\ ClientCalls(trace) < MaxCalls
    /\ \E h \in curl_easy_init_results(trace) : NetworkClient_initialize(h)
    /\ UNCHANGED <<pc, processorVars, exit_code>>

Get ==
    /\ pc = "client" /\ client = "alive"
    /\ ClientCalls(trace) < MaxCalls
    /\ \E url \in Urls : NetworkClient_get(url)
    /\ UNCHANGED <<pc, processorVars, exit_code>>

DeleteClient ==
    /\ pc = "client" /\ client = "alive"
    /\ NetworkClient_dtor
    /\ UNCHANGED <<pc, processorVars, exit_code>>

InitClient == InitAt("client")

NextClient == NewClient \/ Initialize \/ Get \/ DeleteClient

SpecClient == InitClient /\ [][NextClient]_vars

-----------------------------------------------------------------------------
(* Driver of a DataProcessor: construct, any calls, destroy *)

ProcessorCalls(tr) == Count(tr, "DataProcessor::compress_data")

NewProcessor ==
    /\ pc = "processor" /\ processor = "none"
    /\ \E o \in sqlite3_open_results(trace) : DataProcessor_ctor(o)
    /\ UNCHANGED <<pc, clientVars, exit_code>>

ProcessData ==
    /\ pc = "processor" /\ processor = "alive"
    /\ ProcessorCalls(trace) < MaxProcessorCalls
    /\ \E d \in Datas, res \in compress_results :
          \E destLen \in compress_destLen(compressBound(Len(d))) :
              DataProcessor_process_data(d, res, destLen)
    /\ UNCHANGED <<pc, clientVars, exit_code>>

CompressData ==
    /\ pc = "processor" /\ processor = "alive"
    /\ ProcessorCalls(trace) < MaxProcessorCalls
    /\ \E d \in Datas, res \in compress_results :
          \E destLen \in compress_destLen(compressBound(Len(d))) :
              DataProcessor_compress_data(d, res, destLen)
    /\ UNCHANGED <<pc, clientVars, exit_code>>

DeleteProcessor ==
    /\ pc = "processor" /\ processor = "alive"
    /\ DataProcessor_dtor
    /\ UNCHANGED <<pc, clientVars, exit_code>>

InitProcessor == InitAt("processor")

NextProcessor == NewProcessor \/ ProcessData \/ CompressData \/ DeleteProcessor

SpecProcessor == InitProcessor /\ [][NextProcessor]_vars

-----------------------------------------------------------------------------
(* main() *)

\* the statements of main in the order control reaches them; the objects
\* with automatic storage are destroyed after the return statement, in
\* reverse order of declaration: processor, then client
main_order ==
    <<"banner", "curl_global_init", "SSL_load_error_strings", "SSL_library_init",
      "current_path", "make_client", "initialize", "processor", "process_data",
      "curl_global_cleanup", "return", "~processor", "~client", "done">>

\* a main that constructs the processor before the client
main_order_swapped ==
    <<"banner", "curl_global_init", "SSL_load_error_strings", "SSL_library_init",
      "current_path", "processor", "process_data", "make_client", "initialize",
      "curl_global_cleanup", "return", "~processor", "~client", "done">>

Successor(order, p) ==
    LET i == CHOOSE j \in DOMAIN order : order[j] = p
    IN  order[i + 1]

NextPc_swapped(p) == Successor(main_order_swapped, p)

\* the statement that follows p: main has no branch, loop or early return
NextPc(p) == Successor(main_order, p)

\* a main that returns the result code of sqlite3_open
main_exit_code_rc(tr) == tr[LastIndex(tr, "sqlite3_open")].res

\* the value main returns
main_exit_code(tr) == 0

\* a statement of main that only calls libraries and writes lines
Statement(calls, lines) ==
    /\ pc' = NextPc(pc)
    /\ trace' = trace \o calls
    /\ out' = out \o lines
    /\ UNCHANGED <<clientVars, processorVars, exit_code>>

M_banner ==
    /\ pc = "banner"
    /\ Statement(<<>>, <<Line("SBOM Test Application v", <<>>, 1, 0)>>)

M_curl_global_init ==
    /\ pc = "curl_global_init"
    /\ Statement(<<Call("curl_global_init", 0, 0)>>, <<>>)

M_SSL_load_error_strings ==
    /\ pc = "SSL_load_error_strings"
    /\ Statement(<<Call("SSL_load_error_strings", 0, 0)>>, <<>>)

M_SSL_library_init ==
    /\ pc = "SSL_library_init"
    /\ Statement(<<Call("SSL_library_init", 0, 0)>>, <<>>)

M_current_path ==
    /\ pc = "current_path"
    /\ Statement(<<Call("current_path", 0, 0)>>,
              <<Line("Current directory", <<>>, 0, 0)>>)

M_make_client ==
    /\ pc = "make_client"
    /\ pc' = NextPc(pc)
    /\ NetworkClient_ctor
    /\ UNCHANGED <<processorVars, exit_code>>

M_initialize ==
    /\ pc = "initialize"
    /\ pc' = NextPc(pc)
    /\ \E h \in curl_easy_init_results(trace) : NetworkClient_initialize(h)
    /\ UNCHANGED <<processorVars, exit_code>>

M_processor ==
    /\ pc = "processor"
    /\ pc' = NextPc(pc)
    /\ \E o \in sqlite3_open_results(trace) : DataProcessor_ctor(o)
    /\ UNCHANGED <<clientVars, exit_code>>

M_process_data ==
    /\ pc = "process_data"
    /\ pc' = NextPc(pc)
    /\ \E res \in compress_results :
          \E destLen \in compress_destLen(compressBound(Len(SampleData))) :
              DataProcessor_process_data(SampleData, res, destLen)
    /\ UNCHANGED <<clientVars, exit_code>>

M_curl_global_cleanup ==
    /\ pc = "curl_global_cleanup"
    /\ Statement(<<Call("curl_global_cleanup", 0, 0)>>, <<>>)

M_return ==
    /\ pc = "return"
    /\ pc' = NextPc(pc)
    /\ exit_code' = main_exit_code(trace)
    /\ UNCHANGED <<clientVars, processorVars, out, trace>>

M_destroy_processor ==
    /\ pc = "~processor"
    /\ pc' = NextPc(pc)
    /\ DataProcessor_dtor
    /\ UNCHANGED <<clientVars, exit_code>>

M_destroy_client ==
    /\ pc = "~client"
    /\ pc' = NextPc(pc)
    /\ NetworkClient_dtor
    /\ UNCHANGED <<processorVars, exit_code>>

Init == InitAt("banner")

Next ==
    \/ M_banner
    \/ M_curl_global_init
    \/ M_SSL_load_error_strings
    \/ M_SSL_library_init
    \/ M_current_path
    \/ M_make_client
    \/ M_initialize
    \/ M_processor
    \/ M_process_data
    \/ M_curl_global_cleanup
    \/ M_return
    \/ M_destroy_processor
    \/ M_destroy_client

Spec == Init /\ [][Next]_vars

-----------------------------------------------------------------------------
(* Properties of NetworkClient, checked under SpecClient *)

\* C1: once the client is destroyed, every handle initialize() created has
\* been released exactly once; no handle is ever released twice.
C1_EveryHandleReleasedOnce ==
    /\ \A h \in CurlCreated(trace) : CurlReleases(trace, h) <= 1
    /\ client = "destroyed" =>
          \A h \in CurlCreated(trace) : CurlReleases(trace, h) = 1

\* the step is an initialize() call in which curl_easy_init returned NULL
FailedInitializeStep ==
    /\ Len(trace') = Len(trace) + 2
    /\ trace'[Len(trace')].fn = "curl_easy_init"
    /\ trace'[Len(trace')].res = 0

\* C7: an initialize() whose handle creation fails logs nothing and leaves
\* the client as it was; a client destroyed without any successful
\* initialize() makes no release call.
C7_FailedInitializeIsNoOp ==
    [][/\ FailedInitializeStep =>
              /\ curl_handle_' = curl_handle_
              /\ client' = client
              /\ out' = out
       /\ (client' = "destroyed" /\ CurlCreated(trace') = {}) =>
              ~Has(trace', "curl_easy_cleanup")]_vars

\* the step is a get() call
GetStep ==
    /\ Len(trace') = Len(trace) + 1
    /\ trace'[Len(trace')].fn = "NetworkClient::get"

\* library calls in a trace
LibraryCalls(tr) ==
    SelectSeq(tr, LAMBDA c : c.fn \in {"curl_easy_init", "curl_easy_cleanup"})

\* C8: get(url) returns "Response from: " followed by the URL, which
\* therefore contains the URL, and leaves the handle as it was: no handle
\* created, none released, no library call made.
C8_GetReturnsPrefixedUrl ==
    [][GetStep =>
          /\ response' = ResponsePrefix \o get_url'
          /\ Contains(response', get_url')
          /\ curl_handle_' = curl_handle_
          /\ client' = client
          /\ LibraryCalls(trace') = LibraryCalls(trace)]_vars

\* get was called with a URL made of braces on a client holding a handle,
\* after a get on a client that held none
C8_Witness ==
    /\ Count(trace, "NetworkClient::get") = 2
    /\ trace[2].fn = "NetworkClient::get"
    /\ curl_handle_ # 0
    /\ get_url = <<"{", "}">>
    /\ response = ResponsePrefix \o <<"{", "}">>
    /\ client = "alive"

-----------------------------------------------------------------------------
(* Properties of DataProcessor, checked under SpecProcessor *)

\* result code of the constructor's sqlite3_open call
OpenRc(tr) == tr[LastIndex(tr, "sqlite3_open")].res

\* C2 as stated: while the processor is alive its handle is an open
\* connection, whatever sqlite3_open returned, and the handle is released
\* exactly once, at destruction.
C2_HandleAlwaysOpen ==
    /\ processor = "alive" => (db_ # 0 /\ DbIsOpen(trace, db_))
    /\ processor = "alive" => ~Has(trace, "sqlite3_close")
    /\ processor = "destroyed" =>
          \A h \in DbCreated(trace) : DbReleases(trace, h) = 1

\* C2 amended: when sqlite3_open succeeded the handle is an open connection
\* while the processor is alive; whatever sqlite3_open returned, a handle it
\* stored is released exactly once, at destruction, and not before.
C2_HandleOpenWhenOpenSucceeded ==
    /\ (processor = "alive" /\ OpenRc(trace) = 0) =>
          (db_ # 0 /\ DbIsOpen(trace, db_))
    /\ processor = "alive" => ~Has(trace, "sqlite3_close")
    /\ processor = "destroyed" =>
          /\ \A h \in DbCreated(trace) : DbReleases(trace, h) = 1
          /\ Count(trace, "sqlite3_close") = Cardinality(DbCreated(trace))

\* a processor whose open succeeded was used and then destroyed
C2_Witness ==
    /\ processor = "destroyed"
    /\ OpenRc(trace) = 0
    /\ ProcessorCalls(trace) > 0
    /\ DbReleases(trace, db_) = 1

\* C3: the constructor completes for every outcome of sqlite3_open, a
\* failure being only logged; the destructor calls sqlite3_close at most
\* once, calls it when the open succeeded, and not when the handle is null.
C3_DestructibleAfterAnyOpen ==
    /\ Has(trace, "sqlite3_open") =>
          /\ processor \in {"alive", "destroyed"}
          /\ out[1].msg = IF OpenRc(trace) # 0 THEN "Can't open database"
                          ELSE "SQLite database opened successfully"
    /\ Count(trace, "sqlite3_close") <= 1
    /\ (processor = "destroyed" /\ OpenRc(trace) = 0) =>
          Count(trace, "sqlite3_close") = 1
    /\ (processor = "destroyed" /\ db_ = 0) =>
          Count(trace, "sqlite3_close") = 0

\* a processor whose open failed without storing a handle was destroyed
C3_Witness ==
    /\ processor = "destroyed"
    /\ OpenRc(trace) # 0
    /\ db_ = 0
    /\ out[1].msg = "Can't open database"

\* C4: the vector compress_data returns is never longer than
\* compressBound(input length), and on Z_OK it is as long as the compressed
\* size the library reported.
C4_LengthWithinBound ==
    Has(trace, "compress") =>
        /\ compressed <= compressBound(Len(data))
        /\ result = Z_OK => compressed = compressed_size

\* the empty text was compressed with Z_OK to a non-empty buffer shorter
\* than the bound
C4_Witness ==
    /\ Has(trace, "compress")
    /\ data = <<>>
    /\ result = Z_OK
    /\ compressed = 1
    /\ compressed < compressBound(0)

\* the latest compress_data call was made by process_data
ByProcessData(tr) ==
    /\ Has(tr, "compress")
    /\ LastIndex(tr, "DataProcessor::process_data") = LastIndex(tr, "compress") - 2

\* C5: when compress returns a non-OK code, the returned vector keeps the
\* length compressBound(input length), process_data still logs the input
\* length and that length and returns, and a successful compression can
\* return a vector of the same length.
C5_FailureLeavesBoundLength ==
    (Has(trace, "compress") /\ result # Z_OK) =>
        /\ compressed = compressBound(Len(data))
        /\ processor = "alive" \/ processor = "destroyed"
        /\ ByProcessData(trace) =>
              out[Len(out)] = Line("Compressed", <<>>, Len(data), compressed)
        /\ \E n \in compress_destLen(compressBound(Len(data))) :
              vector_size(compressBound(Len(data)), Z_OK, n) = compressed

\* process_data ran with a failing compress that had written fewer bytes
\* than the bound
C5_Witness ==
    /\ ByProcessData(trace)
    /\ result = -4
    /\ compressed_size < compressBound(Len(data))
    /\ compressed = compressBound(Len(data))
    /\ out[Len(out)].msg = "Compressed"
    /\ processor = "alive"

-----------------------------------------------------------------------------
(* Properties of main(), checked under Spec *)

\* the steps of main: the library initializations, the method calls and the
\* library calls they make, the teardown
MainSteps ==
    {"curl_global_init", "SSL_load_error_strings", "SSL_library_init",
     "NetworkClient::NetworkClient", "NetworkClient::initialize", "curl_easy_init",
     "DataProcessor::DataProcessor", "sqlite3_open",
     "DataProcessor::process_data", "compress", "curl_global_cleanup",
     "DataProcessor::~DataProcessor", "NetworkClient::~NetworkClient"}

\* C6: for every outcome of handle creation, database open and compression,
\* main runs each step exactly once, never stops before its end, and
\* returns 0.
C6_AlwaysExitsZero ==
    /\ \A s \in MainSteps : Count(trace, s) <= 1
    /\ exit_code \in {-1, 0}
    /\ pc # "done" => ENABLED Next
    /\ pc = "done" =>
          /\ exit_code = 0
          /\ \A s \in MainSteps : Count(trace, s) = 1

\* main ended after handle creation, database open and compression all failed
C6_Witness ==
    /\ pc = "done"
    /\ exit_code = 0
    /\ CurlCreated(trace) = {}
    /\ OpenRc(trace) # 0
    /\ result # Z_OK

\* the steps of main before teardown, in the order the claim gives
StepsBeforeTeardown ==
    <<"curl_global_init", "SSL_load_error_strings", "SSL_library_init",
      "NetworkClient::NetworkClient", "NetworkClient::initialize",
      "DataProcessor::DataProcessor", "DataProcessor::process_data">>

TeardownSteps ==
    {"curl_global_cleanup", "DataProcessor::~DataProcessor",
     "NetworkClient::~NetworkClient"}

\* the steps taken so far, in order
StepsTaken(tr) ==
    LET picked == SelectSeq(tr, LAMBDA c : c.fn \in
                      {StepsBeforeTeardown[i] : i \in DOMAIN StepsBeforeTeardown}
                          \cup TeardownSteps)
    IN  [i \in DOMAIN picked |-> picked[i].fn]

C10_ReleaseBeforeGlobalCleanup ==
    /\ \A i, j \in DOMAIN trace :
          (trace[i].fn = "curl_easy_cleanup" /\ trace[j].fn = "curl_global_cleanup")
              => i < j
    /\ pc = "done" =>
          /\ \A h \in CurlCreated(trace) : CurlReleases(trace, h) = 1
          /\ \A h \in DbCreated(trace) : DbReleases(trace, h) = 1

=============================================================================
